---- MODULE Spec2Model ----
(***************************************************************************)
(* Verification model of nest-utils: mergeDefault and deepFreeze           *)
(* (data-operation.ts), replaceEnvVariable and loadEnvConfig (env-config), *)
(* loadJsonConfig (json-config) and IntIdPipe (int-id-pipe).               *)
(*                                                                         *)
(* JavaScript values are records [t, v]: undefined, null, a number, or a   *)
(* reference to a heap cell.  Objects and arrays live in `heap`, a         *)
(* sequence of cells addressed by index, so that reference identity,       *)
(* copying and freezing are observable.                                    *)
(***************************************************************************)
EXTENDS Integers, Sequences, FiniteSets, TLC

VARIABLES
  pc,        \* position of the running call
  heap,      \* the object heap: Seq of cells
  heap0,     \* the heap as it was when the call started (for frame checks)
  data,      \* mergeDefault: argument `data` (a value)
  defaultData, \* mergeDefault: argument `defaultData` (a value)
  result,    \* mergeDefault: returned value, or Undef
  error,     \* the error thrown by the running call, "" when none
  obj,       \* deepFreeze: argument
  ret,       \* deepFreeze: returned value
  heapRet,   \* deepFreeze: the heap as it was when deepFreeze returned
  assigned,  \* deepFreeze: address of the object last assigned to, 0 when none
  parsed,    \* replaceEnvVariable: the mapping, rewritten in place
  parsed0,   \* replaceEnvVariable: the mapping as it was passed in
  keyList,   \* replaceEnvVariable: Object.keys(parsed), in insertion order
  forIndex,  \* replaceEnvVariable: `i`, the index of the for loop (0-based)
  curKey,    \* replaceEnvVariable: `key`, the key being processed
  curValue,  \* replaceEnvVariable: `value`, its current value
  matchArray, \* replaceEnvVariable: the last result of regex.exec
  lastIndex, \* replaceEnvVariable: regex.lastIndex
  envResult, \* replaceEnvVariable: the object `result`
  iterations, \* replaceEnvVariable: substitutions made by the while loop, modulo 2
  pipeValue, \* IntIdPipe.transform: the argument `value`
  pipeNum,   \* IntIdPipe.transform: the returned number
  variant,   \* config load: "json" (loadJsonConfig) or "env" (loadEnvConfig)
  steps,     \* config load: the steps performed so far, in order
  dirExists, \* config load: baseDir exists in the file system
  dirExisted, \* config load: baseDir existed when the load started
  fileExists, \* config load: the JSON file exists
  rawKind,   \* config load: what the file or the interpolation yields
  rawTree,   \* config load: the raw data read, as a tree
  defTree,   \* config load: what `new dtoClass()` builds, as a tree
  convertOk, \* config load: plainToInstance ends without throwing
  valid,     \* config load: validateSync reports no error
  freeze,    \* config load: the option `freeze`
  rawConfig, \* config load: the value `rawConfig`
  defaultConfig, \* config load: the value `defaultConfig`
  merged,    \* config load: the value mergeDefault(rawConfig, defaultConfig)
  dto,       \* config load: the value `dto` / `instance`
  returned   \* config load: the value the load returned, Undef when none

-----------------------------------------------------------------------------
(* Bounds of the model *)
MaxNum == 2
MaxArrLen == 2

-----------------------------------------------------------------------------
(* JavaScript values *)
Undef == [t |-> "undef", v |-> 0]
Null == [t |-> "null", v |-> 0]
Num(n) == [t |-> "num", v |-> n]
Str(s) == [t |-> "str", v |-> s]
Ref(a) == [t |-> "ref", v |-> a]

\* `x instanceof Object` for the values of the model: every object and every
\* array is an instance of Object; primitives, null and undefined are not.
InstanceOfObject(val) == val.t = "ref"

\* A heap cell: a plain object (props) or an array (elems).
ObjCell(props) == [kind |-> "obj", props |-> props, elems |-> <<>>, frozen |-> FALSE]
ArrCell(elems) == [kind |-> "arr", props |-> <<>>, elems |-> elems, frozen |-> FALSE]

\* Array.isArray(val)
IsArray(h, val) == val.t = "ref" /\ h[val.v].kind = "arr"

\* Property names.  An array's own enumerable keys are its indices "0".."n-1".
IndexKeys == <<"0", "1", "2", "3", "4", "5">>
AllKeys == <<"a", "b", "x", "A", "B", "C">> \o IndexKeys

IndexOfKey(k) == CHOOSE i \in 1..Len(IndexKeys) : IndexKeys[i] = k
IsIndexKey(k) == \E i \in 1..Len(IndexKeys) : IndexKeys[i] = k

\* Object.keys(o): the own enumerable property names (key order is not
\* significant to any caller here; a fixed order is used).
ObjectKeys(h, a) ==
  IF h[a].kind = "arr"
  THEN SubSeq(IndexKeys, 1, Len(h[a].elems))
  ELSE SelectSeq(AllKeys, LAMBDA k : k \in DOMAIN h[a].props)

\* o[key]: undefined when the property is absent.
GetProp(h, a, k) ==
  IF h[a].kind = "arr"
  THEN IF IsIndexKey(k) /\ IndexOfKey(k) <= Len(h[a].elems)
       THEN h[a].elems[IndexOfKey(k)] ELSE Undef
  ELSE IF k \in DOMAIN h[a].props THEN h[a].props[k] ELSE Undef

HasOwn(h, a, k) ==
  \E i \in 1..Len(ObjectKeys(h, a)) : ObjectKeys(h, a)[i] = k

\* Object.values(o)
ObjectValues(h, a) ==
  [i \in 1..Len(ObjectKeys(h, a)) |-> GetProp(h, a, ObjectKeys(h, a)[i])]

\* result[key] = val on a plain object
SetProp(h, a, k, val) ==
  [h EXCEPT ![a].props =
     [q \in (DOMAIN h[a].props) \cup {k} |-> IF q = k THEN val ELSE h[a].props[q]]]

SeqToSet(s) == {s[i] : i \in 1..Len(s)}

\* new Set([...xs, ...ys]) iterated: xs, then the ys not already seen.
KeyUnion(xs, ys) == xs \o SelectSeq(ys, LAMBDA k : k \notin SeqToSet(xs))

-----------------------------------------------------------------------------
(* mergeDefault *)
RECURSIVE MergeDefault(_, _, _)
RECURSIVE MergeKeys(_, _, _, _, _)

\* The body of `for (const key of keySet)`: st is [h, r, err].
MergeKeys(st, d, dd, keys, r) ==
  IF keys = <<>> \/ st.err # "" THEN st
  ELSE
    LET key == Head(keys)
        h == st.h
        value == GetProp(h, d, key)
        defaultValue == GetProp(h, dd, key)
    IN
    IF InstanceOfObject(defaultValue)
    THEN \* recurse; a non-object or array `value` is replaced by a fresh {}
      LET useValue == InstanceOfObject(value) /\ ~IsArray(h, value)
          h1 == IF useValue THEN h ELSE Append(h, ObjCell(<<>>))
          objValue == IF useValue THEN value.v ELSE Len(h1)
          sub == MergeDefault(h1, objValue, defaultValue.v)
      IN IF sub.err # "" THEN sub
         ELSE MergeKeys([h |-> SetProp(sub.h, r, key, Ref(sub.r)), r |-> r, err |-> ""],
                        d, dd, Tail(keys), r)
    ELSE IF IsArray(h, defaultValue)
    THEN
      IF IsArray(h, value)
      THEN IF \E i \in 1..Len(h[value.v].elems) : InstanceOfObject(h[value.v].elems[i])
           THEN [h |-> h, r |-> r, err |-> "Invalid data: Array of object is not supported"]
           ELSE LET h1 == Append(h, ArrCell(h[value.v].elems))
                IN MergeKeys([h |-> SetProp(h1, r, key, Ref(Len(h1))), r |-> r, err |-> ""],
                             d, dd, Tail(keys), r)
      ELSE IF \E i \in 1..Len(h[defaultValue.v].elems) :
                 InstanceOfObject(h[defaultValue.v].elems[i])
           THEN [h |-> h, r |-> r,
                 err |-> "Invalid default data: Array of object is not supported"]
           ELSE LET h1 == Append(h, ArrCell(h[defaultValue.v].elems))
                IN MergeKeys([h |-> SetProp(h1, r, key, Ref(Len(h1))), r |-> r, err |-> ""],
                             d, dd, Tail(keys), r)
    ELSE
      MergeKeys([h |-> SetProp(h, r, key, IF value = Undef THEN defaultValue ELSE value),
                 r |-> r, err |-> ""],
                d, dd, Tail(keys), r)

\* mergeDefault(data, defaultData) on the objects at addresses d and dd:
\* [h |-> the heap afterwards, r |-> address of the result, err |-> message].
MergeDefault(h, d, dd) ==
  LET h1 == Append(h, ObjCell(<<>>))
      r == Len(h1)
      keySet == KeyUnion(ObjectKeys(h, d), ObjectKeys(h, dd))
  IN MergeKeys([h |-> h1, r |-> r, err |-> ""], d, dd, keySet, r)

-----------------------------------------------------------------------------
(* deepFreeze *)
RECURSIVE DeepFreeze(_, _)
RECURSIVE FreezeValues(_, _)

FreezeValues(h, vals) ==
  IF vals = <<>> THEN h
  ELSE FreezeValues(DeepFreeze(h, Head(vals)).h, Tail(vals))

\* A deepFreeze that freezes the object itself and not what it holds.
DeepFreezeShallow(h, o) ==
  IF o.t # "ref"
  THEN [h |-> h, ret |-> o]
  ELSE [h |-> [h EXCEPT ![o.v].frozen = TRUE], ret |-> o]

\* deepFreeze(o): [h |-> the heap afterwards, ret |-> the returned value]
DeepFreeze(h, o) ==
  IF o.t # "ref"
  THEN [h |-> h, ret |-> o]
  ELSE LET h1 == [h EXCEPT ![o.v].frozen = TRUE]
       IN [h |-> FreezeValues(h1, ObjectValues(h1, o.v)), ret |-> o]

-----------------------------------------------------------------------------
(* Object graphs *)
RECURSIVE Reach(_, _)
\* The addresses of the objects and arrays reachable from a value.
Reach(h, val) ==
  IF val.t # "ref" THEN {}
  ELSE {val.v} \cup
       UNION {Reach(h, ObjectValues(h, val.v)[i]) : i \in 1..Len(ObjectKeys(h, val.v))}

RECURSIVE DeepEq(_, _, _)
\* Structural equality of two values: same primitive, or containers of the
\* same kind whose keys agree and whose members are structurally equal.
DeepEq(h, v1, v2) ==
  IF v1.t # "ref" \/ v2.t # "ref" THEN v1 = v2
  ELSE /\ h[v1.v].kind = h[v2.v].kind
       /\ ObjectKeys(h, v1.v) = ObjectKeys(h, v2.v)
       /\ \A i \in 1..Len(ObjectKeys(h, v1.v)) :
            DeepEq(h, GetProp(h, v1.v, ObjectKeys(h, v1.v)[i]),
                      GetProp(h, v2.v, ObjectKeys(h, v1.v)[i]))

-----------------------------------------------------------------------------
(* Input object graphs, given as trees and laid out in the heap *)
TLeaf(val) == [t |-> "leaf", val |-> val, props |-> <<>>, elems |-> <<>>]
TObj(props) == [t |-> "obj", val |-> Undef, props |-> props, elems |-> <<>>]
TArr(elems) == [t |-> "arr", val |-> Undef, props |-> <<>>, elems |-> elems]
Absent == [t |-> "absent", val |-> Undef, props |-> <<>>, elems |-> <<>>]

Scalars == {Undef, Null} \cup {Num(n) : n \in 1..MaxNum}
LeafTrees == {TLeaf(s) : s \in Scalars}
XObj(tree) == TObj([k \in {"x"} |-> tree])
InnerObjs == {TObj(<<>>)} \cup {XObj(l) : l \in LeafTrees}
DeepObj == XObj(XObj(TLeaf(Num(1))))
ScalarArrs ==
  UNION {{TArr([i \in 1..n |-> TLeaf(Num(f[i]))]) : f \in [1..n -> 1..MaxNum]} : n \in 0..MaxArrLen}
ObjArrs == {TArr(<<XObj(TLeaf(Num(1)))>>), TArr(<<TLeaf(Num(1)), XObj(TLeaf(Num(1)))>>)}
FieldTrees == LeafTrees \cup InnerObjs \cup {DeepObj} \cup ScalarArrs \cup ObjArrs
SideTrees == {TLeaf(Num(1)), TLeaf(Undef), XObj(TLeaf(Num(1)))}

TopObj(fa, fb) ==
  TObj([k \in {q \in {"a", "b"} : (q = "a" /\ fa # Absent) \/ (q = "b" /\ fb # Absent)}
          |-> IF k = "a" THEN fa ELSE fb])
TopObjs == {TopObj(fa, fb) : fa \in FieldTrees \cup {Absent}, fb \in SideTrees \cup {Absent}}

RECURSIVE Build(_, _)
RECURSIVE BuildProps(_, _, _, _)
RECURSIVE BuildElems(_, _, _)

\* acc is [h, props]: lay out the members named by keys, collecting their values
BuildProps(acc, tree, keys, dummy) ==
  IF keys = <<>> THEN acc
  ELSE LET b == Build(acc.h, tree.props[Head(keys)])
       IN BuildProps([h |-> b.h,
                      props |-> [q \in (DOMAIN acc.props) \cup {Head(keys)} |->
                                   IF q = Head(keys) THEN b.v ELSE acc.props[q]]],
                     tree, Tail(keys), dummy)

BuildElems(acc, elems, dummy) ==
  IF elems = <<>> THEN acc
  ELSE LET b == Build(acc.h, Head(elems))
       IN BuildElems([h |-> b.h, elems |-> Append(acc.elems, b.v)], Tail(elems), dummy)

\* Build(h, tree): [h |-> heap with the tree laid out, v |-> its value]
Build(h, tree) ==
  IF tree.t = "leaf" THEN [h |-> h, v |-> tree.val]
  ELSE IF tree.t = "obj"
  THEN LET b == BuildProps([h |-> h, props |-> <<>>], tree,
                           SelectSeq(AllKeys, LAMBDA k : k \in DOMAIN tree.props), 0)
           h1 == Append(b.h, ObjCell(b.props))
       IN [h |-> h1, v |-> Ref(Len(h1))]
  ELSE LET b == BuildElems([h |-> h, elems |-> <<>>], tree.elems, 0)
           h1 == Append(b.h, ArrCell(b.elems))
       IN [h |-> h1, v |-> Ref(Len(h1))]

-----------------------------------------------------------------------------
mergeVars == <<data, defaultData, result>>
freezeVars == <<obj, ret, heapRet, assigned>>
envVars == <<parsed, parsed0, keyList, forIndex, curKey, curValue, matchArray, lastIndex, envResult,
             iterations>>
pipeVars == <<pipeValue, pipeNum>>
loadInputs == <<variant, dirExisted, fileExists, rawKind, rawTree, defTree, convertOk, valid, freeze>>
loadVars == <<loadInputs, steps, dirExists, rawConfig, defaultConfig, merged, dto, returned>>
vars == <<pc, heap, heap0, error, mergeVars, freezeVars, envVars, pipeVars, loadVars>>

\* the variables an operation of one component leaves alone
notMerge == <<freezeVars, envVars, pipeVars, loadVars>>
notFreeze == <<mergeVars, envVars, pipeVars, loadVars>>
notEnv == <<heap, heap0, mergeVars, freezeVars, pipeVars, loadVars>>
notPipe == <<heap, heap0, mergeVars, freezeVars, envVars, loadVars>>
notLoad == <<heap0, mergeVars, freezeVars, envVars, pipeVars>>

MergeIdle == data = Undef /\ defaultData = Undef /\ result = Undef
FreezeIdle == obj = Undef /\ ret = Undef /\ heapRet = <<>> /\ assigned = 0
HeapIdle == heap = <<>> /\ heap0 = <<>>
NoNumber == [nan |-> TRUE, neg |-> FALSE, hi |-> 0, lo |-> 0]
PipeIdle == pipeValue = <<>> /\ pipeNum = NoNumber
LoadIdle ==
  /\ variant = "" /\ steps = <<>> /\ dirExists = FALSE /\ dirExisted = FALSE
  /\ fileExists = FALSE /\ rawKind = "" /\ rawTree = <<>> /\ defTree = <<>>
  /\ convertOk = FALSE /\ valid = FALSE /\ freeze = FALSE
  /\ rawConfig = Undef /\ defaultConfig = Undef /\ merged = Undef /\ dto = Undef
  /\ returned = Undef
EnvIdle ==
  /\ parsed = <<>> /\ parsed0 = <<>> /\ keyList = <<>> /\ forIndex = 0 /\ curKey = <<>>
  /\ curValue = <<>> /\ matchArray = [found |-> FALSE, match |-> <<>>] /\ lastIndex = 0
  /\ envResult = <<>>
  /\ iterations = 0

(* mergeDefault called on two plain objects, then the caller modifies the   *)
(* returned object graph.                                                  *)
InitMerge ==
  \E td \in TopObjs, tdd \in TopObjs :
    LET b1 == Build(<<>>, td)
        b2 == Build(b1.h, tdd)
    IN /\ heap = b2.h
       /\ heap0 = b2.h
       /\ data = b1.v
       /\ defaultData = b2.v
  /\ pc = "call"
  /\ result = Undef
  /\ error = ""
  /\ FreezeIdle /\ EnvIdle /\ PipeIdle /\ LoadIdle

CallMergeDefault ==
  /\ pc = "call"
  /\ LET m == MergeDefault(heap, data.v, defaultData.v)
     IN IF m.err # ""
        THEN /\ pc' = "thrown"
             /\ error' = m.err
             /\ UNCHANGED <<heap, result>>
        ELSE /\ pc' = "returned"
             /\ heap' = m.h
             /\ result' = Ref(m.r)
             /\ error' = ""
  /\ UNCHANGED <<heap0, data, defaultData, notMerge>>

\* A later assignment o[k] = 0 by the caller, o any object reachable from the
\* returned value.
ModifyResult ==
  /\ pc = "returned"
  /\ \E a \in Reach(heap, result) :
       \E i \in 1..Len(ObjectKeys(heap, a)) :
         /\ heap[a].kind = "obj"
         /\ heap' = SetProp(heap, a, ObjectKeys(heap, a)[i], Num(0))
  /\ pc' = "modified"
  /\ UNCHANGED <<heap0, error, mergeVars, notMerge>>

NextMerge == CallMergeDefault \/ ModifyResult

SpecMerge == InitMerge /\ [][NextMerge]_vars

-----------------------------------------------------------------------------
(* Claims about mergeDefault *)
KeysOfValue(h, val) == IF val.t = "ref" THEN SeqToSet(ObjectKeys(h, val.v)) ELSE {}

\* The elements of the array that wins for key k: the data array when the data
\* value is an array, else the default array.
WinningArray(k) ==
  IF IsArray(heap0, GetProp(heap0, data.v, k))
  THEN GetProp(heap0, data.v, k)
  ELSE GetProp(heap0, defaultData.v, k)

IsScalarArray(h, val) ==
  /\ IsArray(h, val)
  /\ \A i \in 1..Len(h[val.v].elems) : ~InstanceOfObject(h[val.v].elems[i])

\* C1: the result of mergeDefault(P, D) has every key of D and of P; a key
\* whose default is not an object and that P defines holds P's value; a key
\* that P lacks (or holds undefined for) holds a value equal to D's value.
C1_MergeHoldsDataOrDefault ==
  pc = "returned" =>
    /\ KeysOfValue(heap0, data) \cup KeysOfValue(heap0, defaultData)
         \subseteq KeysOfValue(heap, result)
    /\ \A k \in KeysOfValue(heap0, data) :
         (/\ ~InstanceOfObject(GetProp(heap0, defaultData.v, k))
          /\ GetProp(heap0, data.v, k) # Undef)
         => GetProp(heap, result.v, k) = GetProp(heap0, data.v, k)
    /\ \A k \in KeysOfValue(heap0, defaultData) :
         GetProp(heap0, data.v, k) = Undef
         => DeepEq(heap, GetProp(heap, result.v, k), GetProp(heap0, defaultData.v, k))

\* C2: for a key whose default is an array of non-objects, the result holds a
\* new array with the elements of the data array (when the data value is an
\* array) or else of the default array, in order.
C2_ArrayKeyIsCopiedArray ==
  pc = "returned" =>
    \A k \in KeysOfValue(heap0, defaultData) :
      IsScalarArray(heap0, GetProp(heap0, defaultData.v, k)) =>
        /\ IsArray(heap, GetProp(heap, result.v, k))
        /\ heap[GetProp(heap, result.v, k).v].elems = heap0[WinningArray(k).v].elems
        /\ GetProp(heap, result.v, k) # GetProp(heap0, data.v, k)
        /\ GetProp(heap, result.v, k) # GetProp(heap0, defaultData.v, k)

\* The array that mergeDefault copies for key k holds an object element.
ArrayOfObjectAt(k) ==
  /\ IsArray(heap0, GetProp(heap0, defaultData.v, k))
  /\ ~IsScalarArray(heap0, WinningArray(k))

\* C3: mergeDefault throws 'array of object is not supported', returning
\* nothing, when a key's default is an array and the data array (or, failing a
\* data array, the default array) for that key holds an object element.
C3_ArrayOfObjectThrows ==
  (pc # "call" /\ \E k \in KeysOfValue(heap0, defaultData) : ArrayOfObjectAt(k))
    => (pc = "thrown" /\ result = Undef)

\* C4: mergeDefault leaves both inputs as they were and shares no object or
\* array with them, so a later write into the result leaves the inputs as
\* they were.
C4_MergeResultIsDeepCopy ==
  /\ pc = "returned" =>
       /\ \A a \in 1..Len(heap0) : heap[a] = heap0[a]
       /\ Reach(heap, result) \cap (Reach(heap0, data) \cup Reach(heap0, defaultData)) = {}
  /\ pc = "modified" =>
       \A a \in Reach(heap0, data) \cup Reach(heap0, defaultData) : heap[a] = heap0[a]

-----------------------------------------------------------------------------
(* deepFreeze called on a value, then the caller attempts assignments.      *)

\* o[k] = val as the language performs it: a frozen object keeps its
\* properties (the write is ignored, or rejected with a TypeError in strict
\* mode); any other object takes the new value.
Assign(h, a, k, val) ==
  IF h[a].frozen THEN h
  ELSE IF h[a].kind = "arr"
  THEN IF IsIndexKey(k) /\ IndexOfKey(k) <= Len(h[a].elems)
       THEN [h EXCEPT ![a].elems[IndexOfKey(k)] = val] ELSE h
  ELSE SetProp(h, a, k, val)

FreezeArgs == FieldTrees \cup {TopObj(fa, fb) : fa \in FieldTrees, fb \in SideTrees}

InitFreeze ==
  \E targ \in FreezeArgs :
    LET b1 == Build(<<>>, XObj(TLeaf(Num(1))))   \* an object the argument does not reach
        b2 == Build(b1.h, targ)
    IN /\ heap = b2.h
       /\ heap0 = b2.h
       /\ obj = b2.v
  /\ pc = "call"
  /\ error = ""
  /\ ret = Undef
  /\ heapRet = <<>>
  /\ assigned = 0
  /\ MergeIdle /\ EnvIdle /\ PipeIdle /\ LoadIdle

CallDeepFreeze ==
  /\ pc = "call"
  /\ LET f == DeepFreeze(heap, obj)
     IN /\ heap' = f.h
        /\ heapRet' = f.h
        /\ ret' = f.ret
  /\ pc' = "returned"
  /\ UNCHANGED <<heap0, error, obj, assigned, notFreeze>>

\* A later assignment to a property of any object in the heap.
AssignAfterFreeze ==
  /\ pc = "returned"
  /\ \E a \in 1..Len(heap), k \in {"x", "0", "1"} :
       /\ heap' = Assign(heap, a, k, Num(0))
       /\ assigned' = a
  /\ UNCHANGED <<pc, heap0, error, obj, ret, heapRet, notFreeze>>

NextFreeze == CallDeepFreeze \/ AssignAfterFreeze

SpecFreeze == InitFreeze /\ [][NextFreeze]_vars

\* C5: deepFreeze returns its argument; once it has returned, the argument and
\* every object or array reachable from it is frozen and keeps its contents
\* under any later assignment; for a primitive or null argument nothing in
\* the heap is frozen.
C5_DeepFreezeFreezesReachable ==
  pc = "returned" =>
    /\ ret = obj
    /\ \A a \in Reach(heap, obj) : heap[a].frozen /\ heap[a] = heapRet[a]
    /\ Reach(heap, obj) = Reach(heap0, obj)
    /\ \A a \in 1..Len(heap0) :
         /\ heapRet[a].props = heap0[a].props
         /\ heapRet[a].elems = heap0[a].elems
         /\ (obj.t # "ref" => ~heapRet[a].frozen)

\* An assignment was attempted on an object nested below the frozen argument
\* (the a.b = ... of deepFreeze({a: {b: 1}})).
C5_Witness ==
  /\ pc = "returned"
  /\ obj.t = "ref"
  /\ assigned \in Reach(heap, obj) \ {obj.v}
  /\ \E a \in Reach(heap, obj) \ {obj.v} : assigned \in Reach(heap, Ref(a)) \ {a}

\* The primitive case: deepFreeze(1) returned 1.
C5_WitnessPrimitive == pc = "returned" /\ obj.t # "ref" /\ assigned # 0

-----------------------------------------------------------------------------
(* replaceEnvVariable.  Strings are sequences of characters.  A value of   *)
(* the mapping is [def, s]: defined with text s, or undefined.             *)
MaxTok == 2       \* tokens per input value
MaxValLen == 10   \* values longer than this are not followed further

EStr(s) == [def |-> TRUE, fn |-> FALSE, s |-> s]
EUndef == [def |-> FALSE, fn |-> FALSE, s |-> <<>>]

\* A name every object inherits from Object.prototype, written as one symbol,
\* and the function found under it: called by String.prototype.replace (with
\* no receiver) it returns the text below, also written as one symbol.
KT == <<"toString">>
ObjectPrototypeToString == [def |-> TRUE, fn |-> TRUE, s |-> <<"[object Undefined]">>]

\* parsed[k]: the own property, else the inherited one, else undefined
Lookup(m, k) ==
  IF k \in DOMAIN m THEN m[k]
  ELSE IF k = KT THEN ObjectPrototypeToString
  ELSE EUndef

Min(S) == CHOOSE x \in S : \A y \in S : x <= y

\* /(?<=\$\{).*?(?=\})/g .exec(s) with regex.lastIndex = li: the first
\* position at or after li that follows "${" and has a "}" at or after it;
\* the match runs up to the first such "}".  A failed exec leaves lastIndex 0,
\* a successful one leaves it at the end of the match.
RegexExec(s, li) ==
  LET starts == {m \in 3..Len(s) : /\ m - 1 >= li
                                   /\ s[m - 2] = "$" /\ s[m - 1] = "{"
                                   /\ \E q \in m..Len(s) : s[q] = "}"}
  IN IF starts = {}
     THEN [found |-> FALSE, match |-> <<>>, lastIndex |-> 0]
     ELSE LET m == Min(starts)
              q == Min({q \in m..Len(s) : s[q] = "}"})
          IN [found |-> TRUE, match |-> SubSeq(s, m, q - 1), lastIndex |-> q - 1]

\* s.indexOf(pat), 1-based; 0 when pat does not occur
IndexOfSub(s, pat) ==
  LET at == {j \in 1..(Len(s) - Len(pat) + 1) : SubSeq(s, j, j + Len(pat) - 1) = pat}
  IN IF at = {} THEN 0 ELSE Min(at)

\* The characters backtick and apostrophe, by name
Backtick == "backtick"
Apostrophe == "apostrophe"

RECURSIVE GetSubstitution(_, _, _, _)
\* The replacement text of String.prototype.replace: $$ is "$", $& the
\* matched text, $backtick the text before the match, $apostrophe the text
\* after it; any other character, "$" included, stands for itself.
GetSubstitution(repl, matched, before, after) ==
  IF repl = <<>> THEN <<>>
  ELSE IF Head(repl) = "$" /\ Len(repl) >= 2 /\ repl[2] \in {"$", "&", Backtick, Apostrophe}
  THEN (CASE repl[2] = "$" -> <<"$">>
          [] repl[2] = "&" -> matched
          [] repl[2] = Backtick -> before
          [] OTHER -> after)
       \o GetSubstitution(SubSeq(repl, 3, Len(repl)), matched, before, after)
  ELSE <<Head(repl)>> \o GetSubstitution(Tail(repl), matched, before, after)

\* s.replace(pat, repl) with a string pattern: the first occurrence only
StringReplace(s, pat, repl) ==
  LET j == IndexOfSub(s, pat)
  IN IF j = 0 THEN s
     ELSE LET before == SubSeq(s, 1, j - 1)
              after == SubSeq(s, j + Len(pat), Len(s))
          IN before \o GetSubstitution(repl, pat, before, after) \o after

\* s.replace(pat, fn) with a function as the replacement: its result is
\* inserted as it is
StringReplaceByFunction(s, pat, returns) ==
  LET j == IndexOfSub(s, pat)
  IN IF j = 0 THEN s
     ELSE SubSeq(s, 1, j - 1) \o returns \o SubSeq(s, j + Len(pat), Len(s))

\* `${matchKey}`
Placeholder(k) == <<"$", "{">> \o k \o <<"}">>

SelfRefError == "cannot reference itself"
MissingKeyError == "environment variable not found"

\* if (matchKey === key) throw ...
IsSelfReference(matchKey, k) == matchKey = k

\* A loop that leaves regex.lastIndex where the last match ended.
KeepLastIndex(li) == li

\* regex.lastIndex = 0
ResetLastIndex(li) == 0

\* Input mappings
KA == <<"A">>
KB == <<"B">>
KC == <<"C">>
Tokens == {<<"x">>, <<"$">>, Placeholder(KA), Placeholder(KB), Placeholder(KC)}
RECURSIVE TokenStrings(_)
TokenStrings(n) ==
  IF n = 0 THEN {<<>>}
  ELSE TokenStrings(n - 1) \cup {s \o t : s \in TokenStrings(n - 1), t \in Tokens}
EnvValues == {EStr(s) : s \in TokenStrings(MaxTok)} \cup {EUndef}
CValues == {EStr(<<"x">>), EStr(Placeholder(KB))}
ReplacementPatternValues == {EStr(<<"$", "&">>)}
InheritedNameValues == {EStr(Placeholder(KT)), EStr(Placeholder(KB) \o Placeholder(KT))}
KeyOrders == {<<KA, KB>>, <<KB, KA>>,
              <<KC, KA, KB>>, <<KA, KC, KB>>, <<KA, KB, KC>>,
              <<KC, KB, KA>>, <<KB, KC, KA>>, <<KB, KA, KC>>}

\* replaceEnvVariable called on a mapping with values of A from VA, of B from VB
InitEnvOver(VA, VB) ==
  /\ \E ks \in KeyOrders, va \in VA, vb \in VB, vc \in CValues :
       /\ keyList = ks
       /\ parsed = [k \in SeqToSet(ks) |-> IF k = KA THEN va ELSE IF k = KB THEN vb ELSE vc]
       /\ parsed0 = parsed
  /\ pc = "for"
  /\ forIndex = 0
  /\ curKey = <<>>
  /\ curValue = <<>>
  /\ matchArray = [found |-> FALSE, match |-> <<>>]
  /\ lastIndex = 0
  /\ envResult = <<>>
  /\ iterations = 0
  /\ error = ""
  /\ HeapIdle /\ MergeIdle /\ FreezeIdle /\ PipeIdle /\ LoadIdle

InitEnv ==
  InitEnvOver(EnvValues \cup InheritedNameValues, EnvValues \cup ReplacementPatternValues)

\* The mappings the runs are followed to their end on
EndValues ==
  {EStr(s) : s \in TokenStrings(1)}
    \cup {EStr(<<"x">> \o Placeholder(KB)), EStr(Placeholder(KB) \o <<"x">>)}
InitEnvEnd == InitEnvOver(EndValues, EndValues)

\* for (...) { const key = keyList[i]; let value = parsed[key];
\*             if (value === undefined) continue;
\*             let matchArray = regex.exec(value);
EnvForStep ==
  /\ pc = "for"
  /\ forIndex < Len(keyList)
  /\ curKey' = keyList[forIndex + 1]
  /\ IF ~Lookup(parsed, keyList[forIndex + 1]).def
     THEN /\ forIndex' = forIndex + 1
          /\ UNCHANGED <<pc, curValue, matchArray, lastIndex>>
     ELSE LET m == RegexExec(parsed[keyList[forIndex + 1]].s, lastIndex)
          IN /\ curValue' = parsed[keyList[forIndex + 1]].s
             /\ matchArray' = [found |-> m.found, match |-> m.match]
             /\ lastIndex' = m.lastIndex
             /\ pc' = "while"
             /\ UNCHANGED forIndex
  /\ UNCHANGED <<parsed, parsed0, keyList, envResult, iterations, error, notEnv>>

\* One iteration of while (matchArray !== null): throw, or substitute, write
\* the value back into parsed and search again from the start.
EnvWhileStep ==
  /\ pc = "while"
  /\ matchArray.found
  /\ LET matchKey == matchArray.match
         replaceValue == Lookup(parsed, matchKey)
         newValue == IF replaceValue.fn
                     THEN StringReplaceByFunction(curValue, Placeholder(matchKey),
                                                  replaceValue.s)
                     ELSE StringReplace(curValue, Placeholder(matchKey), replaceValue.s)
         m == RegexExec(newValue, ResetLastIndex(lastIndex))
     IN IF IsSelfReference(matchKey, curKey)
        THEN /\ pc' = "thrown" /\ error' = SelfRefError
             /\ UNCHANGED <<parsed, curValue, matchArray, lastIndex, iterations>>
        ELSE IF ~replaceValue.def
        THEN /\ pc' = "thrown" /\ error' = MissingKeyError
             /\ UNCHANGED <<parsed, curValue, matchArray, lastIndex, iterations>>
        ELSE /\ Len(newValue) <= MaxValLen
             /\ iterations' = 1 - iterations
             /\ curValue' = newValue
             /\ parsed' = [parsed EXCEPT ![curKey] = EStr(newValue)]
             /\ matchArray' = [found |-> m.found, match |-> m.match]
             /\ lastIndex' = m.lastIndex
             /\ UNCHANGED <<pc, error>>
  /\ UNCHANGED <<parsed0, keyList, forIndex, curKey, envResult, notEnv>>

\* while ends: result[key] = parsed[key]; i++
EnvEndWhile ==
  /\ pc = "while"
  /\ ~matchArray.found
  /\ envResult' = [k \in (DOMAIN envResult) \cup {curKey} |->
                     IF k = curKey THEN parsed[curKey] ELSE envResult[k]]
  /\ forIndex' = forIndex + 1
  /\ pc' = "for"
  /\ UNCHANGED <<parsed, parsed0, keyList, curKey, curValue, matchArray, lastIndex,
                 iterations, error, notEnv>>

\* return result
EnvReturn ==
  /\ pc = "for"
  /\ forIndex >= Len(keyList)
  /\ pc' = "returned"
  /\ UNCHANGED <<envVars, error, notEnv>>

NextEnv == EnvForStep \/ EnvWhileStep \/ EnvEndWhile \/ EnvReturn

SpecEnv == InitEnv /\ [][NextEnv]_vars

\* The call is synchronous: a step that can be taken is taken.
SpecEnvFair == InitEnvEnd /\ [][NextEnv]_vars /\ WF_vars(NextEnv)

-----------------------------------------------------------------------------
(* Claims about replaceEnvVariable *)

\* A placeholder starts at position j of s: "${", with a "}" somewhere after.
PlaceholderAt(s, j) ==
  /\ j + 2 <= Len(s)
  /\ s[j] = "$" /\ s[j + 1] = "{"
  /\ \E q \in (j + 2)..Len(s) : s[q] = "}"
HasPlaceholder(s) == \E j \in 1..Len(s) : PlaceholderAt(s, j)
FirstPlaceholder(s) == Min({j \in 1..Len(s) : PlaceholderAt(s, j)})
ClosingBrace(s, j) == Min({q \in (j + 2)..Len(s) : s[q] = "}"})
\* the key named by the leftmost placeholder of s
FirstName(s) == SubSeq(s, FirstPlaceholder(s) + 2, ClosingBrace(s, FirstPlaceholder(s)) - 1)

\* s contains the text t
Contains(s, t) == \E j \in 1..(Len(s) - Len(t) + 1) : SubSeq(s, j, j + Len(t) - 1) = t
\* the value of key k references key r
References(m, k, r) == k \in DOMAIN m /\ m[k].def /\ Contains(m[k].s, Placeholder(r))

RECURSIVE Resolved(_, _, _)
\* The text s with every placeholder that names a defined key of m replaced
\* by that key's fully resolved value (to nesting depth `fuel`).
Resolved(m, s, fuel) ==
  IF ~HasPlaceholder(s) THEN s
  ELSE LET j == FirstPlaceholder(s)
           q == ClosingBrace(s, j)
           name == SubSeq(s, j + 2, q - 1)
       IN SubSeq(s, 1, j - 1)
          \o (IF fuel > 0 /\ name \in DOMAIN m /\ m[name].def
              THEN Resolved(m, m[name].s, fuel - 1)
              ELSE SubSeq(s, j, q))
          \o Resolved(m, SubSeq(s, q + 1, Len(s)), fuel)

\* C6: when replaceEnvVariable returns, the result has exactly the keys with
\* defined values, no value holds a placeholder, and each value is the input
\* value with every placeholder replaced by the named key's resolved value,
\* whatever the key order.
C6_ResultIsResolvedInput ==
  pc = "returned" =>
    /\ DOMAIN envResult = {k \in DOMAIN parsed0 : parsed0[k].def}
    /\ \A k \in DOMAIN envResult :
         /\ ~HasPlaceholder(envResult[k].s)
         /\ envResult[k].s = Resolved(parsed0, parsed0[k].s, Len(keyList))

\* C7: while a key is processed, its current value is searched from the
\* start; a leftmost placeholder that names the key itself ends the call with
\* the self-reference error, one that names a key absent from the mapping
\* ends it with the missing-key error, and a call that has thrown returns
\* nothing.
C7_PlaceholderErrors ==
  [][/\ pc = "while" =>
          /\ curValue = parsed[curKey].s
          /\ matchArray.found = HasPlaceholder(curValue)
          /\ (HasPlaceholder(curValue) /\ FirstName(curValue) = curKey)
               => (pc' = "thrown" /\ error' = SelfRefError)
          /\ (HasPlaceholder(curValue) /\ FirstName(curValue) # curKey
                /\ FirstName(curValue) \notin DOMAIN parsed)
               => (pc' = "thrown" /\ error' = MissingKeyError)
     /\ pc = "thrown" => pc' = "thrown"]_vars

\* The self-reference error raised on a placeholder that a substitution
\* brought into the value.
C7_Witness ==
  /\ pc = "thrown"
  /\ error = SelfRefError
  /\ curValue # parsed0[curKey].s

\* A's value references B, B's value references A, neither references itself
IndirectCycle(m) ==
  /\ References(m, KA, KB) /\ References(m, KB, KA)
  /\ ~References(m, KA, KA) /\ ~References(m, KB, KB)

-----------------------------------------------------------------------------
(* IntIdPipe.transform.  The argument is a sequence of characters.  A       *)
(* number is [nan, neg, hi, lo], of magnitude hi * 100000 + lo, so that     *)
(* every value a string of ten digits denotes is represented exactly.      *)
MAX_POSTGRES_INT == 2147483647
MaxDigits == 2    \* digits in the generated inputs (boundary inputs are listed)

DigitChars == <<"0", "1", "2", "3", "4", "5", "6", "7", "8", "9">>
IsDigit(c) == \E d \in 1..Len(DigitChars) : DigitChars[d] = c
DigitValue(c) == (CHOOSE d \in 1..Len(DigitChars) : DigitChars[d] = c) - 1

RECURSIVE DigitsToNumber(_, _)
\* The digits ds read in base 10 on top of the number acc.
DigitsToNumber(ds, acc) ==
  IF ds = <<>> THEN acc
  ELSE LET low == acc.lo * 10 + DigitValue(Head(ds))
       IN DigitsToNumber(Tail(ds), [acc EXCEPT !.hi = acc.hi * 10 + low \div 100000,
                                               !.lo = low % 100000])

\* parseInt(value, 10): skip leading white space, read an optional sign, then
\* the longest run of decimal digits; NaN when that run is empty.  Whatever
\* follows the digits is ignored.
ParseInt(value) ==
  LET nonSpace == {j \in 1..Len(value) : value[j] # " "}
      t == IF nonSpace = {} THEN <<>> ELSE SubSeq(value, Min(nonSpace), Len(value))
      signed == t # <<>> /\ t[1] \in {"+", "-"}
      u == IF signed THEN Tail(t) ELSE t
      stops == {j \in 1..Len(u) : ~IsDigit(u[j])}
      run == IF stops = {} THEN Len(u) ELSE Min(stops) - 1
  IN IF run = 0 THEN NoNumber
     ELSE DigitsToNumber(SubSeq(u, 1, run),
                         [nan |-> FALSE, neg |-> signed /\ t[1] = "-", hi |-> 0, lo |-> 0])

LengthError == "length must be less than 10"
PositiveError == "must be a positive integer"
RangeError == "must be less than MAX_POSTGRES_INT"

\* value.length > 10
TooLong(value) == Len(value) > 10

\* A test that lets zero through: num < 0.
IsNaNOrNegative(num) == num.nan \/ (num.neg /\ (num.hi > 0 \/ num.lo > 0))

\* isNaN(num) || num <= 0
IsNaNOrNotPositive(num) == num.nan \/ num.neg \/ (num.hi = 0 /\ num.lo = 0)

\* num > MAX_POSTGRES_INT, for a number that is not negative
ExceedsMax(num) ==
  \/ num.hi > MAX_POSTGRES_INT \div 100000
  \/ num.hi = MAX_POSTGRES_INT \div 100000 /\ num.lo > MAX_POSTGRES_INT % 100000

\* Input strings
PipeDigits == {"0", "1", "9"}
RECURSIVE DigitStrings(_)
DigitStrings(n) ==
  IF n = 0 THEN {<<>>}
  ELSE DigitStrings(n - 1) \cup {s \o <<c>> : s \in DigitStrings(n - 1), c \in PipeDigits}
PipePrefixes == {<<>>, <<" ">>, <<"+">>, <<"-">>}
PipeSuffixes == {<<>>, <<"a">>, <<".", "5">>}
BoundaryInputs ==
  { <<"4", "2">>, <<"a", "b", "c">>,
    <<"2", "1", "4", "7", "4", "8", "3", "6", "4", "6">>,
    <<"2", "1", "4", "7", "4", "8", "3", "6", "4", "7">>,
    <<"2", "1", "4", "7", "4", "8", "3", "6", "4", "8">>,
    <<"2", "1", "4", "7", "5", "0", "0", "0", "0", "0">>,
    <<"9", "9", "9", "9", "9", "9", "9", "9", "9", "9">>,
    <<"0", "0", "0", "0", "0", "0", "0", "0", "0", "1">>,
    <<"0", "0", "0", "0", "0", "0", "0", "0", "0", "0", "1">>,
    <<"9", "9", "9", "9", "9", "9", "9", "9", "9", "9", "9">>,
    <<"-", "2", "1", "4", "7", "4", "8", "3", "6", "4">>,
    <<" ", "2", "1", "4", "7", "4", "8", "3", "6", "4">>,
    <<"2", "1", "4", "7", "4", "8", "3", "6", "4", "a">>,
    <<"1", "2", "3", "4", "5", "6", "7", "8", "9">> }
PipeInputs ==
  BoundaryInputs \cup
  {p \o d \o s : p \in PipePrefixes, d \in DigitStrings(MaxDigits), s \in PipeSuffixes}

InitPipe ==
  /\ pipeValue \in PipeInputs
  /\ pipeNum = NoNumber
  /\ pc = "call"
  /\ error = ""
  /\ HeapIdle /\ MergeIdle /\ FreezeIdle /\ EnvIdle /\ LoadIdle

\* transform(value)
PipeTransform ==
  /\ pc = "call"
  /\ LET num == ParseInt(pipeValue)
     IN IF TooLong(pipeValue)
        THEN pc' = "thrown" /\ error' = LengthError /\ UNCHANGED pipeNum
        ELSE IF IsNaNOrNotPositive(num)
        THEN pc' = "thrown" /\ error' = PositiveError /\ UNCHANGED pipeNum
        ELSE IF ExceedsMax(num)
        THEN pc' = "thrown" /\ error' = RangeError /\ UNCHANGED pipeNum
        ELSE pc' = "returned" /\ pipeNum' = num /\ UNCHANGED error
  /\ UNCHANGED <<pipeValue, notPipe>>

NextPipe == PipeTransform

SpecPipe == InitPipe /\ [][NextPipe]_vars

-----------------------------------------------------------------------------
(* Claim about IntIdPipe.transform *)
\* The integer a string of at most nine decimal digits denotes.
RECURSIVE DecimalValue(_)
DecimalValue(s) ==
  IF s = <<>> THEN 0 ELSE DecimalValue(SubSeq(s, 1, Len(s) - 1)) * 10 + DigitValue(s[Len(s)])
AllDigits(s) == s # <<>> /\ \A j \in 1..Len(s) : IsDigit(s[j])
IsPositive(num) == ~num.nan /\ ~num.neg /\ (num.hi > 0 \/ num.lo > 0)
AtMostMax(num) == num.hi < 21474 \/ (num.hi = 21474 /\ num.lo <= 83647)

-----------------------------------------------------------------------------
(* loadJsonConfig and loadEnvConfig, step by step.  loadEnvConfig runs      *)
(* replaceEnvVariable (the actions above) on what dotenv parsed and goes on *)
(* when it returns; an error thrown by any step leaves the load.            *)
MissingFileError == "JSON config file missing"
JsonSyntaxError == "SyntaxError"
KeysOfNullError == "TypeError"
TransformError == "plainToInstance failed"
ValidationError == "DTO validation failed"

RECURSIVE PlainToInstance(_, _)
RECURSIVE ConvertValues(_, _, _)

\* acc is [h, vals]: convert the values one after the other
ConvertValues(acc, vals, dummy) ==
  IF vals = <<>> THEN acc
  ELSE LET c == PlainToInstance(acc.h, Head(vals))
       IN ConvertValues([h |-> c.h, vals |-> Append(acc.vals, c.v)], Tail(vals), dummy)

\* plainToInstance(dtoClass, plainObj, ...): a new instance whose members are
\* converted in turn, primitives as they are.  [h |-> heap, v |-> instance]
PlainToInstance(h, val) ==
  IF val.t # "ref" THEN [h |-> h, v |-> val]
  ELSE LET keys == ObjectKeys(h, val.v)
           c == ConvertValues([h |-> h, vals |-> <<>>], ObjectValues(h, val.v), 0)
           cell == IF h[val.v].kind = "arr"
                   THEN ArrCell(c.vals)
                   ELSE ObjCell([k \in SeqToSet(keys) |->
                                   c.vals[CHOOSE j \in 1..Len(keys) : keys[j] = k]])
           h1 == Append(c.h, cell)
       IN [h |-> h1, v |-> Ref(Len(h1))]

\* What the JSON file holds, and what `new dtoClass()` builds
AField(tree) == TopObj(tree, Absent)
JsonTrees ==
  { TObj(<<>>), AField(TLeaf(Num(1))), AField(XObj(TLeaf(Num(1)))),
    AField(TArr(<<TLeaf(Num(1))>>)), AField(TArr(<<XObj(TLeaf(Num(1)))>>)),
    TLeaf(Null) }
JsonDefaultTrees ==
  { TObj(<<>>), AField(TLeaf(Num(2))), TopObj(XObj(TLeaf(Num(2))), TLeaf(Num(2))),
    AField(TArr(<<>>)), AField(TArr(<<TLeaf(Num(2))>>)) }
\* What dotenv parsed, and the defaults of an environment DTO
LoadEnvValues ==
  { EStr(<<"x">>), EStr(Placeholder(KA)), EStr(Placeholder(KB)), EStr(Placeholder(KC)),
    EStr(<<"$", "$">>) }
EnvDefaultTrees ==
  { TObj(<<>>), TObj([k \in {"A"} |-> TLeaf(Str(<<"d">>))]),
    TObj([k \in {"C"} |-> XObj(TLeaf(Num(1)))]) }

InitLoadJson ==
  /\ variant = "json"
  /\ pc = "mkdir"
  /\ dirExisted \in BOOLEAN
  /\ fileExists \in {f \in BOOLEAN : f => dirExisted}
  /\ rawKind \in {"text", "malformed"}
  /\ rawTree \in JsonTrees
  /\ defTree \in JsonDefaultTrees
  /\ EnvIdle

InitLoadEnv ==
  /\ variant = "env"
  /\ pc = "for"
  /\ dirExisted = TRUE
  /\ fileExists = FALSE
  /\ rawKind = "env"
  /\ rawTree = Absent
  /\ defTree \in EnvDefaultTrees
  /\ \E ks \in {<<KA, KB>>, <<KB, KA>>}, va \in LoadEnvValues, vb \in LoadEnvValues :
       /\ keyList = ks
       /\ parsed = [k \in {KA, KB} |-> IF k = KA THEN va ELSE vb]
       /\ parsed0 = parsed
  /\ forIndex = 0
  /\ curKey = <<>>
  /\ curValue = <<>>
  /\ matchArray = [found |-> FALSE, match |-> <<>>]
  /\ lastIndex = 0
  /\ envResult = <<>>
  /\ iterations = 0

InitLoad ==
  /\ InitLoadJson \/ InitLoadEnv
  /\ convertOk \in BOOLEAN
  /\ valid \in BOOLEAN
  /\ freeze \in BOOLEAN
  /\ dirExists = dirExisted
  /\ steps = <<>>
  /\ rawConfig = Undef /\ defaultConfig = Undef /\ merged = Undef /\ dto = Undef
  /\ returned = Undef
  /\ error = ""
  /\ HeapIdle /\ MergeIdle /\ FreezeIdle /\ PipeIdle

\* fs.mkdirSync(baseDir, { recursive: true })
LoadMkdir ==
  /\ variant = "json" /\ pc = "mkdir"
  /\ dirExists' = TRUE
  /\ pc' = "exists"
  /\ UNCHANGED <<heap, error, loadInputs, steps, rawConfig, defaultConfig, merged, dto,
                 returned, notLoad>>

\* if (!fs.existsSync(filePath)) throw ...
LoadCheckFile ==
  /\ variant = "json" /\ pc = "exists"
  /\ IF ~fileExists
     THEN pc' = "thrown" /\ error' = MissingFileError
     ELSE pc' = "read" /\ UNCHANGED error
  /\ UNCHANGED <<heap, loadVars, notLoad>>

\* const rawConfig = JSON.parse(fs.readFileSync(filePath, 'utf-8'))
LoadReadJson ==
  /\ variant = "json" /\ pc = "read"
  /\ IF rawKind = "malformed"
     THEN /\ pc' = "thrown" /\ error' = JsonSyntaxError
          /\ UNCHANGED <<heap, rawConfig, steps>>
     ELSE /\ heap' = Build(heap, rawTree).h
          /\ rawConfig' = Build(heap, rawTree).v
          /\ steps' = Append(steps, "read")
          /\ pc' = "default"
          /\ UNCHANGED error
  /\ UNCHANGED <<loadInputs, dirExists, defaultConfig, merged, dto, returned, notLoad>>

\* const rawConfig = replaceEnvVariable(...): the object it returned
LoadEnvRaw ==
  /\ variant = "env" /\ pc = "returned"
  /\ heap' = Append(heap, ObjCell([n \in {k[1] : k \in DOMAIN envResult} |->
                                     Str(envResult[<<n>>].s)]))
  /\ rawConfig' = Ref(Len(heap'))
  /\ steps' = Append(steps, "read")
  /\ pc' = "default"
  /\ UNCHANGED <<error, loadInputs, dirExists, defaultConfig, merged, dto, returned, notLoad>>

\* const defaultConfig = new dtoClass()
LoadNewDefault ==
  /\ pc = "default"
  /\ heap' = Build(heap, defTree).h
  /\ defaultConfig' = Build(heap, defTree).v
  /\ steps' = Append(steps, "default")
  /\ pc' = "merge"
  /\ UNCHANGED <<error, loadInputs, dirExists, rawConfig, merged, dto, returned, notLoad>>

\* mergeDefault(rawConfig, defaultConfig); Object.keys(null) throws
LoadMerge ==
  /\ pc = "merge"
  /\ IF rawConfig.t # "ref"
     THEN /\ pc' = "thrown" /\ error' = KeysOfNullError
          /\ UNCHANGED <<heap, merged, steps>>
     ELSE LET m == MergeDefault(heap, rawConfig.v, defaultConfig.v)
          IN IF m.err # ""
             THEN /\ pc' = "thrown" /\ error' = m.err
                  /\ UNCHANGED <<heap, merged, steps>>
             ELSE /\ heap' = m.h
                  /\ merged' = Ref(m.r)
                  /\ steps' = Append(steps, "merge")
                  /\ pc' = "convert"
                  /\ UNCHANGED error
  /\ UNCHANGED <<loadInputs, dirExists, rawConfig, defaultConfig, dto, returned, notLoad>>

\* toDto: const instance = plainToInstance(dtoClass, plainObj, ...)
LoadConvert ==
  /\ pc = "convert"
  /\ IF ~convertOk
     THEN /\ pc' = "thrown" /\ error' = TransformError
          /\ UNCHANGED <<heap, dto, steps>>
     ELSE /\ heap' = PlainToInstance(heap, merged).h
          /\ dto' = PlainToInstance(heap, merged).v
          /\ steps' = Append(steps, "convert")
          /\ pc' = "validate"
          /\ UNCHANGED error
  /\ UNCHANGED <<loadInputs, dirExists, rawConfig, defaultConfig, merged, returned, notLoad>>

\* toDto: validateSync(instance, validateOption); errors make it throw
LoadValidate ==
  /\ pc = "validate"
  /\ IF ~valid
     THEN pc' = "thrown" /\ error' = ValidationError /\ UNCHANGED steps
     ELSE pc' = "freeze" /\ steps' = Append(steps, "validate") /\ UNCHANGED error
  /\ UNCHANGED <<heap, loadInputs, dirExists, rawConfig, defaultConfig, merged, dto,
                 returned, notLoad>>

\* if (freeze) { deepFreeze(dto); } return dto;
LoadFreezeReturn ==
  /\ pc = "freeze"
  /\ IF freeze
     THEN heap' = DeepFreeze(heap, dto).h /\ steps' = Append(steps, "freeze")
     ELSE UNCHANGED <<heap, steps>>
  /\ returned' = dto
  /\ pc' = "loaded"
  /\ UNCHANGED <<error, loadInputs, dirExists, rawConfig, defaultConfig, merged, dto,
                 notLoad>>

NextLoad ==
  \/ LoadMkdir \/ LoadCheckFile \/ LoadReadJson
  \/ EnvForStep \/ EnvWhileStep \/ EnvEndWhile \/ EnvReturn \/ LoadEnvRaw
  \/ LoadNewDefault \/ LoadMerge \/ LoadConvert \/ LoadValidate \/ LoadFreezeReturn

SpecLoad == InitLoad /\ [][NextLoad]_vars

-----------------------------------------------------------------------------
(* Claim about the two loaders *)
LoadOrder == <<"read", "default", "merge", "convert", "validate", "freeze">>
IsPrefix(s, t) == Len(s) <= Len(t) /\ s = SubSeq(t, 1, Len(s))
HasObject(tree) == tree.t = "arr" /\ \E j \in 1..Len(tree.elems) : tree.elems[j].t = "obj"
\* The raw data holds, where the default is an array, an array with an object in it
UnsupportedArrayShape ==
  /\ rawTree.t = "obj" /\ defTree.t = "obj"
  /\ \E k \in (DOMAIN rawTree.props) \cap (DOMAIN defTree.props) :
       defTree.props[k].t = "arr" /\ HasObject(rawTree.props[k])
\* A value of the mapping names its own key or a key that is missing
PlaceholderFault ==
  /\ variant = "env"
  /\ \E k \in DOMAIN parsed0 :
       parsed0[k] \in {EStr(Placeholder(k)), EStr(Placeholder(KC))}
LoadMustFail ==
  \/ variant = "json" /\ ~fileExists
  \/ variant = "json" /\ rawKind = "malformed"
  \/ PlaceholderFault
  \/ UnsupportedArrayShape
  \/ ~valid

\* C9: the steps of a load occur in the order read, default instance,
\* mergeDefault, convert and validate, deep-freeze; a load that must fail
\* (missing file, malformed input, placeholder error, unsupported array shape,
\* validation failure) returns nothing; a load that has thrown has returned no
\* instance, frozen no object and left no other effect (the base directory is
\* as it was); a load that returns with freeze on returns a deeply frozen
\* instance.
C9_LoadOrderAndAbort ==
  /\ IsPrefix(steps, LoadOrder)
  /\ pc = "loaded" => steps = (IF freeze THEN LoadOrder ELSE SubSeq(LoadOrder, 1, 5))
  /\ LoadMustFail => pc # "loaded"
  /\ pc = "thrown" =>
       /\ returned = Undef
       /\ \A a \in 1..Len(heap) : ~heap[a].frozen
       /\ dirExists = dirExisted
  /\ pc = "loaded" /\ freeze =>
       /\ returned = dto /\ returned.t = "ref"
       /\ \A a \in Reach(heap, returned) : heap[a].frozen

-----------------------------------------------------------------------------
(* Claim about the termination of replaceEnvVariable *)
\* The value of key k names another key r
RefersTo(m, k, r) == k # r /\ References(m, k, r)
RECURSIVE ReachesIn(_, _, _, _)
\* r is reached from k along at most n references between distinct keys
ReachesIn(m, k, r, n) ==
  /\ n > 0
  /\ \/ RefersTo(m, k, r)
     \/ \E q \in DOMAIN m : RefersTo(m, k, q) /\ ReachesIn(m, q, r, n - 1)
\* Distinct keys reference each other in a cycle
ReferenceCycle(m) == \E k \in DOMAIN m : ReachesIn(m, k, k, Cardinality(DOMAIN m))

\* The call has ended: it returned a result or threw an error
EnvEnded == pc \in {"returned", "thrown"}
\* The next substitution would make the value longer than the model follows
BeyondMaxValLen ==
  /\ pc = "while" /\ matchArray.found
  /\ ~IsSelfReference(matchArray.match, curKey)
  /\ Lookup(parsed, matchArray.match).def
  /\ Len(StringReplace(curValue, Placeholder(matchArray.match),
                       Lookup(parsed, matchArray.match).s)) > MaxValLen

\* C11: for a mapping in which no distinct keys reference each other in a
\* cycle, replaceEnvVariable terminates: every run, whatever the key order,
\* eventually returns a result or fails with an error (runs whose values grow
\* past the longest value the model follows are left aside).
C11_AcyclicMappingTerminates ==
  ~ReferenceCycle(parsed0) => <>(EnvEnded \/ BeyondMaxValLen)

====
